---- MODULE Spec2Model ----
(***************************************************************************)
(* State-machine model of the Anchor program `solana_bridge`               *)
(* (programs/solana-bridge/src/lib.rs): the BridgeState account, the SPL   *)
(* token accounts the instructions act on through CPI, the event log, and  *)
(* one action per instruction.  Every instruction is one transaction: the  *)
(* handler runs on a working copy of the accounts and the copy is written  *)
(* back only when the instruction returns Ok.                              *)
(***************************************************************************)
EXTENDS Integers, Sequences, FiniteSets, TLC

(***************************************************************************)
(* Bounds of the model.                                                    *)
(***************************************************************************)
\* Width of the `nonce: u64` counter, scaled down.
NonceBits == 2
\* Capacity of `processed_nonces` (#[max_len(10000)]), scaled down.
ProcessedNoncesMaxLen == 2
\* Largest token amount an SPL account or a mint supply can hold (u64::MAX), scaled down.
TokenMax == 1
\* Length of the event log up to which instructions are explored.
MaxEvents == 2
\* The same, for the runs that drive the nonce counter to its maximum.
MaxEventsDeep == 4
\* Log length up to which lock and burn are explored in the capacity runs.
MaxEventsShallow == 1

\* eth_recipient.len() == 42
EthAddrLen == 42

U64Max == 2 ^ NonceBits - 1

(***************************************************************************)
(* Identities, token mints and token accounts.                             *)
(***************************************************************************)
Keys == {"ownerA", "user1"}
\* The PDA derived from seeds [b"bridge"]: authority of the wrapped mint,
\* and holder of the custody token account.
bridge_authority == "bridge_pda"
NoKey == "none"

Mints == {"home", "wrapped"}
mint_authority == [m \in Mints |-> IF m = "wrapped" THEN bridge_authority ELSE "issuer"]

TokenAccounts == {"user1_home", "ownerA_home", "custody", "user1_wrapped"}
token_mint == [a \in TokenAccounts |-> IF a = "user1_wrapped" THEN "wrapped" ELSE "home"]
token_owner ==
  [a \in TokenAccounts |->
     CASE a \in {"user1_home", "user1_wrapped"} -> "user1"
       [] a = "ownerA_home" -> "ownerA"
       [] OTHER -> bridge_authority]

Amounts == {0, 1}
NonceArgs == 0..ProcessedNoncesMaxLen

\* Accounts passed to lock: <<user, user_token, bridge_token>>.
LockAccounts ==
  { <<"user1", "user1_home", "custody">>,
    <<"ownerA", "user1_home", "custody">> }
\* The program puts no constraint on bridge_token: any token account may be passed.
LockAccountsAny == LockAccounts \cup { <<"user1", "user1_home", "ownerA_home">> }

\* Accounts passed to mint: <<user, wrapped_mint, user_token>>.
MintAccounts ==
  { <<"user1", "wrapped", "user1_wrapped">>,
    <<"user1", "home", "user1_home">> }
\* The program does not relate user to user_token.
MintAccountsAny == MintAccounts \cup { <<"ownerA", "wrapped", "user1_wrapped">> }

\* Accounts passed to burn: <<user, wrapped_mint, user_token>>.
BurnAccounts ==
  { <<"user1", "wrapped", "user1_wrapped">>,
    <<"ownerA", "wrapped", "user1_wrapped">> }
\* The program puts no constraint on wrapped_mint: any mint may be passed.
BurnAccountsAny == BurnAccounts \cup { <<"user1", "home", "user1_home">> }

\* Destination addresses offered to lock and burn.
HexAddr == <<"0", "x">> \o [i \in 1..(EthAddrLen - 2) |-> "a"]
NonHexAddr == <<"0", "x">> \o [i \in 1..(EthAddrLen - 2) |-> "z"]
ShortAddr == <<"0", "x", "a">>
NoPrefixAddr == [i \in 1..EthAddrLen |-> "a"]
EthRecipients == {HexAddr, ShortAddr}
EthRecipientsAll == {HexAddr, NonHexAddr, ShortAddr, NoPrefixAddr}

(***************************************************************************)
(* State.                                                                  *)
(***************************************************************************)
VARIABLES
  bridge_state,     \* the BridgeState account: exists, owner, nonce, paused, processed_nonces
  tokens,           \* amount held by each SPL token account
  events,           \* log of emitted LockEvent / MintEvent / BurnEvent
  last,             \* the last instruction submitted and its result
  mint_ok,          \* history: number of successful mint instructions per nonce argument
  lock_burn_ok,     \* history: number of successful lock and burn instructions
  inflight          \* two mint transactions submitted together, and their results

vars == <<bridge_state, tokens, events, last, mint_ok, lock_burn_ok, inflight>>

\* The accounts and log an instruction works on.
World == [bridge_state |-> bridge_state, tokens |-> tokens, events |-> events]

Ok(w) == [res |-> "Ok", w |-> w]
Err(e, w) == [res |-> e, w |-> w]

(***************************************************************************)
(* String helpers.                                                         *)
(***************************************************************************)
starts_with(s, p) == Len(s) >= Len(p) /\ SubSeq(s, 1, Len(p)) = p

contains(v, x) == \E i \in 1..Len(v) : v[i] = x

(***************************************************************************)
(* SPL token program, as called through CPI.                               *)
(***************************************************************************)
supply(t, m) ==
  LET RECURSIVE Sum(_)
      Sum(S) == IF S = {} THEN 0
                ELSE LET a == CHOOSE x \in S : TRUE IN t[a] + Sum(S \ {a})
  IN Sum({a \in TokenAccounts : token_mint[a] = m})

token_transfer(t, from, to, authority, amount) ==
  IF t[from] < amount THEN [res |-> "InsufficientFunds", t |-> t]
  ELSE IF token_mint[from] # token_mint[to] THEN [res |-> "MintMismatch", t |-> t]
  ELSE IF token_owner[from] # authority THEN [res |-> "OwnerMismatch", t |-> t]
  ELSE IF from = to \/ amount = 0 THEN [res |-> "Ok", t |-> t]
  ELSE IF t[to] + amount > TokenMax THEN [res |-> "Overflow", t |-> t]
  ELSE [res |-> "Ok", t |-> [t EXCEPT ![from] = @ - amount, ![to] = @ + amount]]

token_mint_to(t, mint, to, authority, amount) ==
  IF token_mint[to] # mint THEN [res |-> "MintMismatch", t |-> t]
  ELSE IF mint_authority[mint] # authority THEN [res |-> "OwnerMismatch", t |-> t]
  ELSE IF amount = 0 THEN [res |-> "Ok", t |-> t]
  ELSE IF t[to] + amount > TokenMax \/ supply(t, mint) + amount > TokenMax
       THEN [res |-> "Overflow", t |-> t]
  ELSE [res |-> "Ok", t |-> [t EXCEPT ![to] = @ + amount]]

token_burn(t, mint, from, authority, amount) ==
  IF t[from] < amount THEN [res |-> "InsufficientFunds", t |-> t]
  ELSE IF token_mint[from] # mint THEN [res |-> "MintMismatch", t |-> t]
  ELSE IF token_owner[from] # authority THEN [res |-> "OwnerMismatch", t |-> t]
  ELSE IF amount = 0 THEN [res |-> "Ok", t |-> t]
  ELSE [res |-> "Ok", t |-> [t EXCEPT ![from] = @ - amount]]

(***************************************************************************)
(* Instruction handlers.  Each takes the working copy w and the            *)
(* instruction's accounts and arguments, and returns the result together   *)
(* with the working copy as the handler left it.                           *)
(***************************************************************************)
\* `bridge_state.nonce += 1` on a u64.
nonce_increment(n, checks) ==
  IF n < U64Max THEN [res |-> "Ok", n |-> n + 1]
  ELSE IF checks THEN [res |-> "Panic", n |-> n]
  ELSE [res |-> "Ok", n |-> 0]

\* initialize leaving the new record paused.
initialize_paused(w, owner) ==
  Ok([w EXCEPT !.bridge_state.owner = owner,
               !.bridge_state.nonce = 0,
               !.bridge_state.paused = TRUE])

initialize(w, owner) ==
  Ok([w EXCEPT !.bridge_state.owner = owner,
               !.bridge_state.nonce = 0,
               !.bridge_state.paused = FALSE])

\* lock with the paused check left out.
lock_no_pause_check(w, checks, user, amount, eth_recipient, user_token, bridge_token) ==
  IF ~(starts_with(eth_recipient, <<"0", "x">>) /\ Len(eth_recipient) = EthAddrLen)
  THEN Err("InvalidEthAddress", w)
  ELSE LET cpi == token_transfer(w.tokens, user_token, bridge_token, user, amount) IN
    IF cpi.res # "Ok" THEN Err(cpi.res, w)
    ELSE LET w1 == [w EXCEPT !.tokens = cpi.t]
             inc == nonce_increment(w1.bridge_state.nonce, checks) IN
      IF inc.res # "Ok" THEN Err(inc.res, w1)
      ELSE LET w2 == [w1 EXCEPT !.bridge_state.nonce = inc.n] IN
        Ok([w2 EXCEPT !.events = Append(@, [kind |-> "LockEvent", from |-> user,
                                             amount |-> amount, nonce |-> inc.n,
                                             eth_recipient |-> eth_recipient])])

lock(w, checks, user, amount, eth_recipient, user_token, bridge_token) ==
  IF w.bridge_state.paused THEN Err("BridgePaused", w)
  ELSE IF ~(starts_with(eth_recipient, <<"0", "x">>) /\ Len(eth_recipient) = EthAddrLen)
       THEN Err("InvalidEthAddress", w)
  ELSE LET cpi == token_transfer(w.tokens, user_token, bridge_token, user, amount) IN
    IF cpi.res # "Ok" THEN Err(cpi.res, w)
    ELSE LET w1 == [w EXCEPT !.tokens = cpi.t]
             inc == nonce_increment(w1.bridge_state.nonce, checks) IN
      IF inc.res # "Ok" THEN Err(inc.res, w1)
      ELSE LET w2 == [w1 EXCEPT !.bridge_state.nonce = inc.n]
               current_nonce == w2.bridge_state.nonce IN
        Ok([w2 EXCEPT !.events = Append(@, [kind |-> "LockEvent", from |-> user,
                                             amount |-> amount, nonce |-> current_nonce,
                                             eth_recipient |-> eth_recipient])])

\* mint_effect with the push onto processed_nonces left out.
mint_effect_no_push(w, user, amount, nonce, wrapped_mint, user_token) ==
  LET cpi == token_mint_to(w.tokens, wrapped_mint, user_token, bridge_authority, amount) IN
    IF cpi.res # "Ok" THEN Err(cpi.res, w)
    ELSE LET w1 == [w EXCEPT !.tokens = cpi.t] IN
      Ok([w1 EXCEPT !.events = Append(@, [kind |-> "MintEvent", to |-> user,
                                           amount |-> amount, nonce |-> nonce])])

\* mint after its three require! checks: the CPI, the push and the event.
mint_effect(w, user, amount, nonce, wrapped_mint, user_token) ==
  LET cpi == token_mint_to(w.tokens, wrapped_mint, user_token, bridge_authority, amount) IN
    IF cpi.res # "Ok" THEN Err(cpi.res, w)
    ELSE LET w1 == [w EXCEPT !.tokens = cpi.t]
             w2 == [w1 EXCEPT !.bridge_state.processed_nonces = Append(@, nonce)] IN
      Ok([w2 EXCEPT !.events = Append(@, [kind |-> "MintEvent", to |-> user,
                                           amount |-> amount, nonce |-> nonce])])

\* mint with the processed_nonces.contains check left out.
mint_no_replay_check(w, user, authority, amount, nonce, wrapped_mint, user_token) ==
  IF w.bridge_state.paused THEN Err("BridgePaused", w)
  ELSE IF authority # w.bridge_state.owner THEN Err("Unauthorized", w)
  ELSE mint_effect(w, user, amount, nonce, wrapped_mint, user_token)

\* mint with the authority check left out.
mint_no_auth_check(w, user, authority, amount, nonce, wrapped_mint, user_token) ==
  IF w.bridge_state.paused THEN Err("BridgePaused", w)
  ELSE IF contains(w.bridge_state.processed_nonces, nonce) THEN Err("AlreadyProcessed", w)
  ELSE mint_effect(w, user, amount, nonce, wrapped_mint, user_token)

\* mint with the authority check moved before the processed_nonces.contains check.
mint_auth_check_first(w, user, authority, amount, nonce, wrapped_mint, user_token) ==
  IF w.bridge_state.paused THEN Err("BridgePaused", w)
  ELSE IF authority # w.bridge_state.owner THEN Err("Unauthorized", w)
  ELSE IF contains(w.bridge_state.processed_nonces, nonce) THEN Err("AlreadyProcessed", w)
  ELSE mint_effect(w, user, amount, nonce, wrapped_mint, user_token)

mint(w, user, authority, amount, nonce, wrapped_mint, user_token) ==
  IF w.bridge_state.paused THEN Err("BridgePaused", w)
  ELSE IF contains(w.bridge_state.processed_nonces, nonce) THEN Err("AlreadyProcessed", w)
  ELSE IF authority # w.bridge_state.owner THEN Err("Unauthorized", w)
  ELSE mint_effect(w, user, amount, nonce, wrapped_mint, user_token)

burn(w, checks, user, amount, eth_recipient, wrapped_mint, user_token) ==
  IF w.bridge_state.paused THEN Err("BridgePaused", w)
  ELSE IF ~(starts_with(eth_recipient, <<"0", "x">>) /\ Len(eth_recipient) = EthAddrLen)
       THEN Err("InvalidEthAddress", w)
  ELSE LET cpi == token_burn(w.tokens, wrapped_mint, user_token, user, amount) IN
    IF cpi.res # "Ok" THEN Err(cpi.res, w)
    ELSE LET w1 == [w EXCEPT !.tokens = cpi.t]
             inc == nonce_increment(w1.bridge_state.nonce, checks) IN
      IF inc.res # "Ok" THEN Err(inc.res, w1)
      ELSE LET w2 == [w1 EXCEPT !.bridge_state.nonce = inc.n]
               current_nonce == w2.bridge_state.nonce IN
        Ok([w2 EXCEPT !.events = Append(@, [kind |-> "BurnEvent", from |-> user,
                                             amount |-> amount, nonce |-> current_nonce,
                                             eth_recipient |-> eth_recipient])])

\* pause with the owner check left out.
pause_no_owner_check(w, owner) == Ok([w EXCEPT !.bridge_state.paused = TRUE])

pause(w, owner) ==
  IF owner # w.bridge_state.owner THEN Err("Unauthorized", w)
  ELSE Ok([w EXCEPT !.bridge_state.paused = TRUE])

unpause(w, owner) ==
  IF owner # w.bridge_state.owner THEN Err("Unauthorized", w)
  ELSE Ok([w EXCEPT !.bridge_state.paused = FALSE])

(***************************************************************************)
(* Account validation around a handler (the #[derive(Accounts)] structs).  *)
(***************************************************************************)
\* #[account(init_if_needed, ...)] in place of #[account(init, ...)].
init_if_needed_bridge_state(w) ==
  IF w.bridge_state.exists THEN Ok(w)
  ELSE Ok([w EXCEPT !.bridge_state = [exists |-> TRUE, owner |-> NoKey, nonce |-> 0,
                                       paused |-> FALSE, processed_nonces |-> <<>>]])

\* #[account(init, ...)] bridge_state: the account is created, zeroed, and
\* must not exist yet.
init_bridge_state(w) ==
  IF w.bridge_state.exists THEN Err("AlreadyInUse", w)
  ELSE Ok([w EXCEPT !.bridge_state = [exists |-> TRUE, owner |-> NoKey, nonce |-> 0,
                                       paused |-> FALSE, processed_nonces |-> <<>>]])

\* #[account(mut, seeds = [b"bridge_state"], bump)] bridge_state: Account<BridgeState>
load_bridge_state(w) ==
  IF w.bridge_state.exists THEN Ok(w) ELSE Err("AccountNotInitialized", w)

\* An account that is large enough for any processed_nonces vector.
exit_bridge_state_unbounded(w) == Ok(w)

\* Writing the BridgeState back into its account data of 8 + INIT_SPACE bytes
\* when the handler has returned Ok.
exit_bridge_state(w) ==
  IF Len(w.bridge_state.processed_nonces) > ProcessedNoncesMaxLen
  THEN Err("AccountDidNotSerialize", w)
  ELSE Ok(w)

\* One instruction: validate the accounts, run the handler, write back.
\* r0 is the result of account validation, r1 the result of the handler run
\* on the accounts r0 loaded (it counts only when r0 is Ok).
Instruction(r0, r1) ==
  IF r0.res # "Ok" THEN r0
  ELSE IF r1.res # "Ok" THEN r1
  ELSE exit_bridge_state(r1.w)

\* A runtime that keeps the working copy of a failed instruction.
process_transaction_no_rollback(w, r) == r.w

\* The transaction commits its working copy only when the instruction returned Ok.
process_transaction(w, r) == IF r.res = "Ok" THEN r.w ELSE w

(***************************************************************************)
(* Actions: one per instruction.                                           *)
(***************************************************************************)
NoTx == [nonce |-> -1]

Init ==
  /\ bridge_state = [exists |-> FALSE, owner |-> NoKey, nonce |-> 0,
                     paused |-> FALSE, processed_nonces |-> <<>>]
  /\ tokens = [a \in TokenAccounts |-> IF a = "user1_home" THEN 1 ELSE 0]
  /\ events = <<>>
  /\ last = [op |-> "none", res |-> "none"]
  /\ mint_ok = [n \in NonceArgs |-> 0]
  /\ lock_burn_ok = 0
  /\ inflight = [tx |-> NoTx, res |-> <<"none", "none">>]

\* The build profile: `nonce += 1` panics on overflow (TRUE) or wraps (FALSE).
\* The profile is observable only when the counter is at its maximum.
OverflowChecks == IF bridge_state.nonce = U64Max THEN BOOLEAN ELSE {TRUE}

\* A successful instruction is explored while the event log has room for its event.
Commit(r, maxEvents) ==
  LET w == process_transaction(World, r) IN
  /\ r.res = "Ok" => Len(r.w.events) <= maxEvents
  /\ bridge_state' = w.bridge_state
  /\ tokens' = w.tokens
  /\ events' = w.events

Initialize ==
  \E owner \in Keys :
    LET r0 == init_bridge_state(World)
        r == Instruction(r0, initialize(r0.w, owner)) IN
    /\ Commit(r, MaxEventsDeep)
    /\ last' = [op |-> "initialize", res |-> r.res, caller |-> owner]
    /\ UNCHANGED <<mint_ok, lock_burn_ok, inflight>>

LockCall(Accounts, Recipients, maxEvents) ==
  \E acc \in Accounts, amount \in Amounts, eth_recipient \in Recipients,
     overflow_checks \in OverflowChecks :
    LET r0 == load_bridge_state(World)
        r == Instruction(r0, lock(r0.w, overflow_checks, acc[1], amount, eth_recipient,
                                  acc[2], acc[3])) IN
    /\ Commit(r, maxEvents)
    /\ last' = [op |-> "lock", res |-> r.res, amount |-> amount]
    /\ lock_burn_ok' = IF r.res = "Ok" THEN lock_burn_ok + 1 ELSE lock_burn_ok
    /\ UNCHANGED <<mint_ok, inflight>>

MintCall(Accounts, maxEvents) ==
  \E acc \in Accounts, authority \in Keys, amount \in Amounts, nonce \in NonceArgs :
    LET r0 == load_bridge_state(World)
        r == Instruction(r0, mint(r0.w, acc[1], authority, amount, nonce, acc[2], acc[3])) IN
    /\ Commit(r, maxEvents)
    /\ last' = [op |-> "mint", res |-> r.res, caller |-> authority, nonce |-> nonce]
    /\ mint_ok' = IF r.res = "Ok" THEN [mint_ok EXCEPT ![nonce] = @ + 1] ELSE mint_ok
    /\ UNCHANGED <<lock_burn_ok, inflight>>

BurnCall(Accounts, Recipients, maxEvents) ==
  \E acc \in Accounts, amount \in Amounts, eth_recipient \in Recipients,
     overflow_checks \in OverflowChecks :
    LET r0 == load_bridge_state(World)
        r == Instruction(r0, burn(r0.w, overflow_checks, acc[1], amount, eth_recipient,
                                  acc[2], acc[3])) IN
    /\ Commit(r, maxEvents)
    /\ last' = [op |-> "burn", res |-> r.res, amount |-> amount]
    /\ lock_burn_ok' = IF r.res = "Ok" THEN lock_burn_ok + 1 ELSE lock_burn_ok
    /\ UNCHANGED <<mint_ok, inflight>>

Pause ==
  \E owner \in Keys :
    LET r0 == load_bridge_state(World)
        r == Instruction(r0, pause(r0.w, owner)) IN
    /\ Commit(r, MaxEventsDeep)
    /\ last' = [op |-> "pause", res |-> r.res, caller |-> owner]
    /\ UNCHANGED <<mint_ok, lock_burn_ok, inflight>>

Unpause ==
  \E owner \in Keys :
    LET r0 == load_bridge_state(World)
        r == Instruction(r0, unpause(r0.w, owner)) IN
    /\ Commit(r, MaxEventsDeep)
    /\ last' = [op |-> "unpause", res |-> r.res, caller |-> owner]
    /\ UNCHANGED <<mint_ok, lock_burn_ok, inflight>>

\* Two mint transactions carrying the same arguments are submitted together
\* by the owner.  `fresh` records whether the nonce was unprocessed at submission.
SubmitMintPair ==
  \E amount \in Amounts, nonce \in NonceArgs :
    /\ bridge_state.exists
    /\ inflight.tx = NoTx
    /\ inflight' = [tx |-> [nonce |-> nonce, authority |-> bridge_state.owner, amount |-> amount,
                            fresh |-> ~contains(bridge_state.processed_nonces, nonce)],
                    res |-> <<"pending", "pending">>]
    /\ UNCHANGED <<bridge_state, tokens, events, last, mint_ok, lock_burn_ok>>

\* The runtime executes the submitted transactions one at a time, in any order:
\* both write to the bridge_state account.
ExecuteMint ==
  \E i \in 1..2 :
    /\ inflight.tx # NoTx
    /\ inflight.res[i] = "pending"
    /\ LET tx == inflight.tx
           r0 == load_bridge_state(World)
           r == Instruction(r0, mint(r0.w, "user1", tx.authority, tx.amount, tx.nonce,
                                     "wrapped", "user1_wrapped")) IN
       /\ Commit(r, MaxEvents)
       /\ last' = [op |-> "mint", res |-> r.res, caller |-> tx.authority, nonce |-> tx.nonce]
       /\ mint_ok' = IF r.res = "Ok" THEN [mint_ok EXCEPT ![tx.nonce] = @ + 1] ELSE mint_ok
       /\ inflight' = [inflight EXCEPT !.res[i] = r.res]
       /\ UNCHANGED lock_burn_ok

\* Instructions called with the accounts their documentation intends, or with
\* accounts that the token program rejects.
Next ==
  \/ Initialize
  \/ LockCall(LockAccounts, EthRecipients, MaxEvents)
  \/ MintCall(MintAccounts, MaxEvents)
  \/ BurnCall(BurnAccounts, EthRecipients, MaxEvents)
  \/ Pause
  \/ Unpause

Spec == Init /\ [][Next]_vars

\* Instructions called with any accounts that pass the program's account validation.
NextAnyAccounts ==
  \/ Initialize
  \/ LockCall(LockAccountsAny, EthRecipients, MaxEvents)
  \/ MintCall(MintAccountsAny, MaxEvents)
  \/ BurnCall(BurnAccountsAny, EthRecipients, MaxEvents)
  \/ Pause
  \/ Unpause

SpecAnyAccounts == Init /\ [][NextAnyAccounts]_vars

\* Long runs: enough successful lock and burn instructions for the nonce
\* counter to reach its maximum.
NextDeep ==
  \/ Initialize
  \/ LockCall({<<"user1", "user1_home", "custody">>}, {HexAddr}, MaxEventsDeep)
  \/ MintCall({<<"user1", "wrapped", "user1_wrapped">>}, MaxEventsDeep)
  \/ BurnCall({<<"user1", "wrapped", "user1_wrapped">>}, {HexAddr}, MaxEventsDeep)
  \/ Pause
  \/ Unpause

SpecDeep == Init /\ [][NextDeep]_vars

\* Instructions as in Spec, together with pairs of mint transactions in flight.
NextConcurrent ==
  \/ Initialize
  \/ LockCall({<<"user1", "user1_home", "custody">>}, {HexAddr}, MaxEvents)
  \/ MintCall({<<"user1", "wrapped", "user1_wrapped">>}, MaxEvents)
  \/ BurnCall({<<"user1", "wrapped", "user1_wrapped">>}, {HexAddr}, MaxEvents)
  \/ Pause
  \/ Unpause
  \/ SubmitMintPair
  \/ ExecuteMint

SpecConcurrent == Init /\ [][NextConcurrent]_vars

\* Lock and burn called with every shape of destination address.
NextAddresses ==
  \/ Initialize
  \/ LockCall({<<"user1", "user1_home", "custody">>}, EthRecipientsAll, MaxEvents)
  \/ MintCall({<<"user1", "wrapped", "user1_wrapped">>}, MaxEvents)
  \/ BurnCall({<<"user1", "wrapped", "user1_wrapped">>}, EthRecipientsAll, MaxEvents)
  \/ Pause
  \/ Unpause

SpecAddresses == Init /\ [][NextAddresses]_vars

\* Mint runs long enough to fill processed_nonces and to try one more mint,
\* between short runs of lock and burn.
NextCapacity ==
  \/ Initialize
  \/ LockCall({<<"user1", "user1_home", "custody">>}, {HexAddr}, MaxEventsShallow)
  \/ MintCall({<<"user1", "wrapped", "user1_wrapped">>}, MaxEventsDeep)
  \/ BurnCall({<<"user1", "wrapped", "user1_wrapped">>}, {HexAddr}, MaxEventsShallow)
  \/ Pause
  \/ Unpause

SpecCapacity == Init /\ [][NextCapacity]_vars

(***************************************************************************)
(* Claims.                                                                 *)
(***************************************************************************)
IsOwner(k) == bridge_state.exists /\ k = bridge_state.owner

\* C1: replay safety: for every nonce n, at most one mint instruction
\* carrying n ever succeeds.
C1_ReplaySafety == \A n \in NonceArgs : mint_ok[n] <= 1

\* A mint by the owner was rejected because its nonce had already been minted.
C1_Witness ==
  /\ last.op = "mint" /\ last.res = "AlreadyProcessed"
  /\ IsOwner(last.caller)
  /\ mint_ok[last.nonce] = 1

\* C3: pause exclusivity: from a state with paused = TRUE every lock, mint and
\* burn instruction, whoever calls it, fails with BridgePaused.
C3_PauseExclusivity ==
  [][(bridge_state.paused /\ last'.op \in {"lock", "mint", "burn"})
       => last'.res = "BridgePaused"]_vars

\* The owner's mint was rejected on the paused bridge.
C3_Witness ==
  /\ bridge_state.paused
  /\ last.op = "mint" /\ IsOwner(last.caller) /\ last.res = "BridgePaused"

\* C4 as stated: a mint by a caller other than the owner fails with
\* Unauthorized in every bridge state and for every nonce, and leaves
\* processed_nonces unchanged.
C4_AlwaysUnauthorized ==
  [][(bridge_state.exists /\ last'.op = "mint" /\ last'.caller # bridge_state.owner)
       => /\ last'.res = "Unauthorized"
          /\ bridge_state'.processed_nonces = bridge_state.processed_nonces]_vars

\* C4 as amended: a mint by a caller other than the owner never succeeds and
\* leaves processed_nonces unchanged; it fails with BridgePaused on a paused
\* bridge, with AlreadyProcessed on an unpaused bridge when the nonce is
\* already processed, and with Unauthorized otherwise.
C4_NonOwnerMintFails ==
  [][(bridge_state.exists /\ last'.op = "mint" /\ last'.caller # bridge_state.owner)
       => /\ last'.res =
               IF bridge_state.paused THEN "BridgePaused"
               ELSE IF contains(bridge_state.processed_nonces, last'.nonce)
                    THEN "AlreadyProcessed"
               ELSE "Unauthorized"
          /\ bridge_state'.processed_nonces = bridge_state.processed_nonces]_vars

\* A caller other than the owner was refused with Unauthorized.
C4_Witness ==
  /\ bridge_state.exists
  /\ last.op = "mint" /\ last.caller # bridge_state.owner /\ last.res = "Unauthorized"

C7_PauseUnpause ==
  [][(bridge_state.exists /\ last'.op \in {"pause", "unpause"})
       => IF last'.caller = bridge_state.owner
          THEN /\ last'.res = "Ok"
               /\ bridge_state' = [bridge_state EXCEPT !.paused = (last'.op = "pause")]
          ELSE /\ last'.res = "Unauthorized"
               /\ bridge_state' = bridge_state]_vars

\* A caller other than the owner was refused an unpause on the paused bridge.
C7_Witness ==
  /\ bridge_state.paused
  /\ last.op = "unpause" /\ last.caller # bridge_state.owner /\ last.res = "Unauthorized"

\* C10: initialize succeeds only when no record exists, and then creates it
\* with owner = caller, nonce = 0, paused = FALSE and processed_nonces empty;
\* while a record exists it fails and leaves the record unchanged.
C10_InitializeOnce ==
  [][(last'.op = "initialize")
       => IF ~bridge_state.exists
          THEN /\ last'.res = "Ok"
               /\ bridge_state' = [exists |-> TRUE, owner |-> last'.caller, nonce |-> 0,
                                   paused |-> FALSE, processed_nonces |-> <<>>]
          ELSE /\ last'.res = "AlreadyInUse"
               /\ bridge_state' = bridge_state]_vars

\* A second initialize, by another identity, was refused on a record that had
\* been used.
C10_Witness ==
  /\ last.op = "initialize" /\ last.res = "AlreadyInUse"
  /\ bridge_state.exists /\ last.caller # bridge_state.owner
  /\ bridge_state.processed_nonces # <<>>

\* C2: of two mint transactions carrying the same nonce, submitted together
\* by the owner with a fresh nonce and executed on an unpaused bridge with a
\* succeeding token mint, exactly one succeeds, the other is rejected with
\* AlreadyProcessed, and the mint takes effect exactly once.
PairDone == inflight.tx # NoTx /\ \A i \in 1..2 : inflight.res[i] # "pending"
PairOk == Cardinality({i \in 1..2 : inflight.res[i] = "Ok"})
TokenErrors == {"InsufficientFunds", "MintMismatch", "OwnerMismatch", "Overflow"}
C2_ExactlyOneOfTwo ==
  (/\ PairDone
   /\ IsOwner(inflight.tx.authority)
   /\ inflight.tx.fresh
   /\ \A i \in 1..2 : inflight.res[i] \notin ({"BridgePaused"} \cup TokenErrors)
   /\ mint_ok[inflight.tx.nonce] = PairOk)
  => /\ \E i \in 1..2 : inflight.res[i] = "Ok" /\ inflight.res[3 - i] = "AlreadyProcessed"
     /\ Cardinality({k \in 1..Len(events) : /\ events[k].kind = "MintEvent"
                                             /\ events[k].nonce = inflight.tx.nonce}) = 1

\* C5: the nonce counter equals the number of lock and burn instructions that
\* have succeeded since initialize.
C5_NonceCountsLockAndBurn == bridge_state.nonce = lock_burn_ok

\* C8: a lock or burn called with amount 0 on an initialized, unpaused bridge
\* does not succeed: no nonce increment, no balance change, no event.
C8_ZeroAmountRejected ==
  [][(bridge_state.exists /\ ~bridge_state.paused
        /\ last'.op \in {"lock", "burn"} /\ last'.amount = 0)
       => /\ last'.res # "Ok"
          /\ bridge_state'.nonce = bridge_state.nonce
          /\ tokens' = tokens
          /\ events' = events]_vars

\* C9: the balance of the bridge's custody account equals the sum of the
\* amounts of all emitted LockEvents.
RECURSIVE SumLockAmounts(_)
SumLockAmounts(log) ==
  IF log = <<>> THEN 0
  ELSE (IF Head(log).kind = "LockEvent" THEN Head(log).amount ELSE 0) + SumLockAmounts(Tail(log))
C9_CustodyBacksLockEvents == tokens["custody"] = SumLockAmounts(events)

\* C11: the nonce counter never wraps: a lock or burn attempted when nonce is
\* at the maximum of its width fails, and the record, the balances and the
\* event log are unchanged; nonce is never set to 0 or a smaller value.
C11_NonceNeverWraps ==
  [][(bridge_state.exists /\ bridge_state.nonce = U64Max /\ last'.op \in {"lock", "burn"})
       => /\ last'.res # "Ok"
          /\ bridge_state' = bridge_state /\ tokens' = tokens /\ events' = events]_vars

\* C12: lock and burn accept a destination address only if it is the two
\* characters "0x" followed by 40 hexadecimal digits; every other string is
\* refused with no event, so each LockEvent and BurnEvent in the log carries
\* such an address.
HexDigits == {"0", "1", "2", "3", "4", "5", "6", "7", "8", "9",
              "a", "b", "c", "d", "e", "f", "A", "B", "C", "D", "E", "F"}
IsHexAddress(s) ==
  /\ Len(s) = EthAddrLen
  /\ s[1] = "0" /\ s[2] = "x"
  /\ \A i \in 3..Len(s) : s[i] \in HexDigits
C12_OnlyHexAddressAccepted ==
  \A k \in 1..Len(events) :
    events[k].kind \in {"LockEvent", "BurnEvent"} => IsHexAddress(events[k].eth_recipient)

\* C13: mint checks paused, then already-processed, then authorization, and
\* reports the first check that fails: on a paused bridge every mint returns
\* BridgePaused; on an unpaused bridge a mint whose nonce is already processed
\* returns AlreadyProcessed whoever calls; Unauthorized is returned exactly
\* when the bridge is unpaused, the nonce unprocessed and the caller not the owner.
C13_MintCheckOrder ==
  [][(bridge_state.exists /\ last'.op = "mint")
       => LET processed == contains(bridge_state.processed_nonces, last'.nonce) IN
          /\ bridge_state.paused => last'.res = "BridgePaused"
          /\ (~bridge_state.paused /\ processed) => last'.res = "AlreadyProcessed"
          /\ last'.res = "Unauthorized"
               <=> (~bridge_state.paused /\ ~processed /\ last'.caller # bridge_state.owner)]_vars

\* A caller other than the owner replayed a processed nonce on the unpaused
\* bridge and was told AlreadyProcessed.
C13_Witness ==
  /\ bridge_state.exists /\ ~bridge_state.paused
  /\ last.op = "mint" /\ last.caller # bridge_state.owner
  /\ contains(bridge_state.processed_nonces, last.nonce)
  /\ last.res = "AlreadyProcessed"

\* C14: a nonce is in processed_nonces if and only if a mint for it succeeded;
\* a failed token mint leaves the nonce unprocessed, and a mint by the owner
\* with an unprocessed nonce on the unpaused bridge succeeds whenever its
\* token mint succeeds, so a retry is always still possible.
C14_RetryAlwaysPossible ==
  [][/\ \A n \in NonceArgs :
          contains(bridge_state'.processed_nonces, n) <=> mint_ok'[n] >= 1
     /\ (/\ bridge_state.exists /\ ~bridge_state.paused
         /\ last'.op = "mint" /\ last'.caller = bridge_state.owner
         /\ ~contains(bridge_state.processed_nonces, last'.nonce))
        => /\ last'.res \in ({"Ok"} \cup TokenErrors)
           /\ last'.res \in TokenErrors
                => ~contains(bridge_state'.processed_nonces, last'.nonce)]_vars

\* C15: once processed_nonces holds its capacity, every mint, the owner's
\* with a fresh nonce on the unpaused bridge included, fails and leaves the
\* record unchanged; the list stays at capacity over every step, so mints
\* stay blocked.
C15_MintBlockedAtCapacity ==
  [][(Len(bridge_state.processed_nonces) >= ProcessedNoncesMaxLen)
       => /\ bridge_state'.processed_nonces = bridge_state.processed_nonces
          /\ last'.op = "mint" => (last'.res # "Ok" /\ bridge_state' = bridge_state)]_vars

\* The owner's mint of a fresh nonce on the unpaused bridge failed because
\* the list was full.
C15_Witness ==
  /\ Len(bridge_state.processed_nonces) = ProcessedNoncesMaxLen
  /\ ~bridge_state.paused
  /\ last.op = "mint" /\ IsOwner(last.caller)
  /\ ~contains(bridge_state.processed_nonces, last.nonce)
  /\ last.res = "AccountDidNotSerialize"

\* C16: processed_nonces never holds a value twice, and over every step it
\* only grows: a successful mint appends exactly its own nonce, and every
\* other call leaves the list as it was.
NoDuplicates(seq) == \A i, j \in 1..Len(seq) : seq[i] = seq[j] => i = j
C16_ProcessedNoncesAppendOnly ==
  [][/\ NoDuplicates(bridge_state'.processed_nonces)
     /\ bridge_state'.processed_nonces =
          IF last'.op = "mint" /\ last'.res = "Ok"
          THEN Append(bridge_state.processed_nonces, last'.nonce)
          ELSE bridge_state.processed_nonces]_vars

\* A second successful mint appended its nonce behind the first one.
C16_Witness ==
  /\ last.op = "mint" /\ last.res = "Ok"
  /\ Len(bridge_state.processed_nonces) = 2
  /\ bridge_state.processed_nonces[2] = last.nonce
  /\ bridge_state.processed_nonces[1] # last.nonce

\* C17: the paused flag is changed only by pause and unpause: every lock,
\* mint and burn call, successful or not, and every failed initialize leave
\* it unchanged, and it is FALSE immediately after a successful initialize.
C17_PausedFrame ==
  [][/\ last'.op \in {"lock", "mint", "burn"}
          => bridge_state'.paused = bridge_state.paused
     /\ last'.op = "initialize"
          => bridge_state'.paused = IF last'.res = "Ok" THEN FALSE ELSE bridge_state.paused]_vars

\* An initialize was refused on the paused bridge, which stayed paused.
C17_Witness ==
  /\ bridge_state.paused
  /\ last.op = "initialize" /\ last.res # "Ok"

\* C18: once the record exists its owner never changes, whatever is called
\* by whomever; the owner is the caller of the one successful initialize,
\* which is the call that created the record.
C18_OwnerFixed ==
  [][/\ bridge_state.exists
          => (bridge_state'.exists /\ bridge_state'.owner = bridge_state.owner)
     /\ (last'.op = "initialize" /\ last'.res = "Ok")
          => (~bridge_state.exists /\ bridge_state'.owner = last'.caller)]_vars

\* After a lock, a mint and a pause, another identity tried to initialize
\* again and the owner stayed.
C18_Witness ==
  /\ bridge_state.exists /\ bridge_state.paused
  /\ bridge_state.nonce > 0 /\ bridge_state.processed_nonces # <<>>
  /\ last.op = "initialize" /\ last.res = "AlreadyInUse"
  /\ last.caller # bridge_state.owner

\* C19: every successful lock or burn emits exactly one event carrying the
\* post-increment nonce, so the nonces of the LockEvents and BurnEvents are
\* 1, 2, 3, ... in emission order, with no duplicate and no gap, and the last
\* one equals the record's nonce.
IsLockOrBurnEvent(e) == e.kind \in {"LockEvent", "BurnEvent"}
C19_EventNoncesCountUp ==
  LET lb == SelectSeq(events, IsLockOrBurnEvent) IN
  /\ Len(lb) = lock_burn_ok
  /\ \A k \in 1..Len(lb) : lb[k].nonce = k
  /\ Len(lb) > 0 => lb[Len(lb)].nonce = bridge_state.nonce

\* C20: a MintEvent is emitted only by a successful mint and describes its
\* effect: the nonces carried by the MintEvents are exactly the members of
\* processed_nonces, the event's `to` is the holder of the wrapped-token
\* account that was credited, and its `amount` is the amount credited.
MintEventNonces(log) == {log[k].nonce : k \in {i \in 1..Len(log) : log[i].kind = "MintEvent"}}
C20_MintEventDescribesMint ==
  [][/\ MintEventNonces(events') =
          {bridge_state'.processed_nonces[k] : k \in 1..Len(bridge_state'.processed_nonces)}
     /\ (Len(events') > Len(events) /\ events'[Len(events')].kind = "MintEvent")
          => LET e == events'[Len(events')]
                 credited == {a \in TokenAccounts : tokens'[a] # tokens[a]} IN
             /\ last'.op = "mint" /\ last'.res = "Ok"
             /\ e.nonce = last'.nonce
             /\ e.amount > 0 => credited # {}
             /\ \A a \in credited : /\ token_mint[a] = "wrapped"
                                    /\ token_owner[a] = e.to
                                    /\ tokens'[a] = tokens[a] + e.amount]_vars

====
